---- MODULE Spec2Model ----
(***************************************************************************)
(* State machine of the <date-and-daytime-range-picker> web component      *)
(* (src/src/date-and-daytime-range-picker.js).                             *)
(*                                                                         *)
(* Units.  Local calendar dates are day numbers (days since 1970-01-01),   *)
(* instants are minutes since the epoch (the component never produces a    *)
(* non-zero seconds field), pixel coordinates are integers relative to the *)
(* left edge of the track.  Real-valued quotients of the code (ratios,     *)
(* centres) are kept as exact fractions and rounded where the code rounds. *)
(***************************************************************************)
EXTENDS Integers, Sequences, FiniteSets, TLC

VARIABLES
  ready,      \* #ready
  els,        \* the template is attached and #els caches its elements
  attrs,      \* the element's observed attributes (what getAttribute returns)
  S,          \* #state
  prevTZ,     \* #prevTZ
  tzInput,    \* E.tzInput: [value, invalid]
  sessions,   \* per track, the gesture sessions whose listeners are registered
  gestures,   \* pointer-downs accepted so far (bounded by MaxGestures)
  hour24,     \* platform: the en-US hour12:false formatter prints midnight as 24
  emitted,    \* events dispatched by the last operation, in order
  threw,      \* the last operation raised an error out of the handler
  last        \* the last operation and its inputs

vars == <<ready, els, attrs, S, prevTZ, tzInput, sessions, gestures, hour24,
          emitted, threw, last>>

(***************************************************************************)
(* Bounds of the model                                                     *)
(***************************************************************************)
MaxGestures == 2      \* pointer-downs in one behaviour

(***************************************************************************)
(* Program constants                                                       *)
(***************************************************************************)
mod == 1440
CLICK_PX_THRESHOLD == 6
DefaultTimeStep == 15
DefaultDateStep == 1
DefaultWindowDays == 30
MinutesPerHour == 60
GapFallbackMinutes == 60
MaxOffsetIterations == 4

Null == "null"          \* null / undefined where a string is expected
NoDate == 0             \* null where a Date is expected (every Date is truthy)
NaN == -99999999        \* NaN, as a number and as the time value of an Invalid Date

(***************************************************************************)
(* Arithmetic of the JavaScript primitives the code uses                   *)
(***************************************************************************)
Max(a, b) == IF a >= b THEN a ELSE b
Min(a, b) == IF a <= b THEN a ELSE b
Abs(a) == IF a < 0 THEN -a ELSE a

\* Math.floor(n / d), d > 0
FloorDiv(n, d) == n \div d
\* Math.ceil(n / d), d > 0
CeilDiv(n, d) == -((-n) \div d)
\* Math.round(n / d), d > 0: halves round towards +Infinity
RoundDiv(n, d) == (2 * n + d) \div (2 * d)
\* the % operator: the remainder takes the sign of the dividend
JSRem(a, b) == IF a >= 0 THEN a % b ELSE -((-a) % b)

(***************************************************************************)
(* Calendar: what the platform Date does with date-only values             *)
(***************************************************************************)
\* new Date(y, m-1, d) / Date.UTC(y, m-1, d) as a day number (proleptic Gregorian)
DaysFromCivil(y, m, d) ==
  LET yy  == IF m <= 2 THEN y - 1 ELSE y
      era == yy \div 400
      yoe == yy - era * 400
      mp  == (m + 9) % 12
      doy == (153 * mp + 2) \div 5 + d - 1
      doe == yoe * 365 + yoe \div 4 - yoe \div 100 + doy
  IN  era * 146097 + doe - 719468

\* getFullYear / getMonth()+1 / getDate of a day number
CivilFromDays(z) ==
  LET zz  == z + 719468
      era == zz \div 146097
      doe == zz - era * 146097
      yoe == (doe - doe \div 1460 + doe \div 36524 - doe \div 146096) \div 365
      doy == doe - (365 * yoe + yoe \div 4 - yoe \div 100)
      mp  == (5 * doy + 2) \div 153
      d   == doy - (153 * mp + 2) \div 5 + 1
      m   == IF mp < 10 THEN mp + 3 ELSE mp - 9
      y   == yoe + era * 400 + (IF m <= 2 THEN 1 ELSE 0)
  IN  [y |-> y, m |-> m, d |-> d]

\* #todayLocal(): the host's current local date (2026-03-03 in this model)
todayLocal == DaysFromCivil(2026, 3, 3)

\* #coerceDateOnly(v): a date-only value, or null for anything that is neither a
\* Date nor a YYYY-MM-DD string; a Date whose time value is NaN is a Date, and
\* new Date(NaN, NaN, NaN) is an Invalid Date again
coerceDateOnly(v) ==
  CASE v.kind = "date" -> v.n
    [] v.kind = "invalid" -> NaN
    [] OTHER -> NoDate

\* #daysBetween(a, b): whole days between two date-only values; Math.round(NaN)
\* is NaN
daysBetween(a, b) == IF b = NaN THEN NaN ELSE RoundDiv((b - a) * mod, mod)

\* #dateToIdx(d) and #idxToDate(idx), relative to #state.minDate
dateToIdx(st, d) == daysBetween(st.minDate, d)
idxToDate(st, idx) == st.minDate + idx

\* #fmtDateISO(d): the YYYY-MM-DD text, kept as its three numeric fields
fmtDateISO(d) == CivilFromDays(d)

\* #minToHMS(min)
minToHMS(min) == <<FloorDiv(min, MinutesPerHour), JSRem(min, MinutesPerHour), 0>>

(***************************************************************************)
(* Time zones: the platform's zone-aware formatter                         *)
(***************************************************************************)
\* identifiers Intl.DateTimeFormat accepts (a sample of the IANA list)
KnownZones == {"UTC", "Asia/Tokyo", "America/New_York", "Europe/Berlin"}

\* #isValidTimeZone(tz)
isValidTimeZone(tz) == tz \in KnownZones

\* the zone's UTC offset in minutes at an instant (2026 rules)
ZoneOffsetAt(tz, epoch) ==
  CASE tz = "UTC" -> 0
    [] tz = "Asia/Tokyo" -> 540
    [] tz = "America/New_York" ->
         IF epoch >= DaysFromCivil(2026, 3, 8) * mod + 7 * MinutesPerHour
         THEN -240 ELSE -300
    [] tz = "Europe/Berlin" ->
         IF epoch >= DaysFromCivil(2026, 3, 29) * mod + 1 * MinutesPerHour
         THEN 120 ELSE 60

\* fmt.formatToParts(new Date(epoch)) with hour12:false, as numeric fields;
\* h24 engines print the hour of midnight as 24
formatToParts(tz, epoch, h24) ==
  LET wall == epoch + ZoneOffsetAt(tz, epoch)
      c    == CivilFromDays(wall \div mod)
      hh   == (wall % mod) \div MinutesPerHour
  IN  [year |-> c.y, month |-> c.m, day |-> c.d,
       hour |-> IF h24 /\ hh = 0 THEN 24 ELSE hh,
       minute |-> wall % MinutesPerHour, second |-> 0]

\* Date.UTC(y, M-1, d, h, m, s) in minutes
DateUTC(y, M, d, h, m) == DaysFromCivil(y, M, d) * mod + h * MinutesPerHour + m

\* #getOffsetMinutes(tz, epochMs)
getOffsetMinutes(tz, epoch, h24) ==
  LET parts == formatToParts(tz, epoch, h24)
  IN  DateUTC(parts.year, parts.month, parts.day, parts.hour, parts.minute) - epoch

\* the for-loop of #localToEpoch: i iterations left, current off and epoch
RECURSIVE OffsetFixpoint(_, _, _, _, _, _)
OffsetFixpoint(tz, guess, off, epoch, i, h24) ==
  IF i = 0 THEN epoch
  ELSE LET noff == getOffsetMinutes(tz, epoch, h24)
       IN  IF noff = off THEN epoch
           ELSE OffsetFixpoint(tz, guess, noff, guess - noff, i - 1, h24)

\* the number of times the for-loop of #localToEpoch calls #getOffsetMinutes
RECURSIVE OffsetRecomputations(_, _, _, _, _, _)
OffsetRecomputations(tz, guess, off, epoch, i, h24) ==
  IF i = 0 THEN 0
  ELSE LET noff == getOffsetMinutes(tz, epoch, h24)
       IN  IF noff = off THEN 1
           ELSE 1 + OffsetRecomputations(tz, guess, noff, guess - noff, i - 1, h24)

\* the value of a one-element set; a value bound through a set constructor is
\* computed once, where a LET definition is computed again at every use
Only(s) == CHOOSE v \in s : TRUE

\* #localToEpoch(tz, y, M, d, h, m, s); guess, off and epoch are bound once
localToEpoch(tz, y, M, d, h, m, h24) ==
  Only({Only({Only({
    LET parts == formatToParts(tz, epoch, h24)
        ok    == /\ parts.year = y /\ parts.month = M /\ parts.day = d
                 /\ parts.hour = h /\ parts.minute = m /\ parts.second = 0
    IN  IF ok THEN epoch ELSE epoch + GapFallbackMinutes
      : epoch \in {OffsetFixpoint(tz, guess, off, guess - off, MaxOffsetIterations, h24)}})
      : off \in {getOffsetMinutes(tz, guess, h24)}})
      : guess \in {DateUTC(y, M, d, h, m)}})

\* #toISOWithOffset(tz, y, M, d, h, m, s): the text YYYY-MM-DDTHH:MM:SS+HH:MM,
\* kept as its fields
toISOWithOffset(tz, y, M, d, h, m, h24) ==
  LET epoch == localToEpoch(tz, y, M, d, h, m, h24)
      off   == getOffsetMinutes(tz, epoch, h24)
  IN  [y |-> y, M |-> M, d |-> d, h |-> h, m |-> m, s |-> 0,
       sign |-> IF off >= 0 THEN "+" ELSE "-",
       oh |-> FloorDiv(Abs(off), MinutesPerHour),
       om |-> JSRem(Abs(off), MinutesPerHour)]

(***************************************************************************)
(* Values that cross the boundary as text                                  *)
(***************************************************************************)
\* an attribute or input value: absent (null), text its parser rejects, or text
\* that parses to the number n (a day number for dates)
Absent == [kind |-> "absent", n |-> 0]
Unparsed == [kind |-> "garbage", n |-> 0]
DateText(y, m, d) == [kind |-> "date", n |-> DaysFromCivil(y, m, d)]
\* a Date object that holds no date, such as new Date("tomorrow")
InvalidDate == [kind |-> "invalid", n |-> 0]
NumText(n) == [kind |-> "num", n |-> n]
\* the text of a time input: "" or HH:MM
NoTime == [kind |-> "empty", H |-> 0, M |-> 0]
TimeText(H, M) == [kind |-> "hm", H |-> H, M |-> M]

\* String.prototype.trim on the sample of typed texts
trim(txt) == IF txt = " " THEN "" ELSE txt

(***************************************************************************)
(* #state and the helpers that read or write it                            *)
(***************************************************************************)
\* the field initialisers of #state
InitState ==
  [minDate |-> NoDate, maxDate |-> NoDate,
   dateMin |-> 0, dateMax |-> 0, dateStart |-> 0, dateEnd |-> 0, dateStepDays |-> 1,
   timeMin |-> 0, timeMax |-> 24 * 60 - 1, timeStart |-> 22 * 60, timeEnd |-> 6 * 60,
   timeStep |-> 15, timeZone |-> "UTC"]

\* #snapToStep(value, step); Math.round(NaN) is NaN
snapToStep(value, step) == IF value = NaN THEN NaN ELSE RoundDiv(value, step) * step
\* #clamp(min, max, v); Math.min and Math.max return NaN when given one
clamp(min, max, v) == IF v = NaN THEN NaN ELSE Max(min, Min(max, v))

\* clamp and snap both ends without putting them in order
clampAndSyncDatesNoSwap(st) ==
  [st EXCEPT
     !.dateStart = snapToStep(clamp(st.dateMin, st.dateMax, st.dateStart), st.dateStepDays),
     !.dateEnd = snapToStep(clamp(st.dateMin, st.dateMax, st.dateEnd), st.dateStepDays)]

\* #clampAndSyncDates()
clampAndSyncDates(st) ==
  LET a == snapToStep(clamp(st.dateMin, st.dateMax, st.dateStart), st.dateStepDays)
      b == snapToStep(clamp(st.dateMin, st.dateMax, st.dateEnd), st.dateStepDays)
  IN  \* a comparison with NaN is false
      IF a # NaN /\ b # NaN /\ a > b THEN [st EXCEPT !.dateStart = b, !.dateEnd = a]
      ELSE [st EXCEPT !.dateStart = a, !.dateEnd = b]

\* #clampAndSyncTimes()
clampAndSyncTimes(st) ==
  [st EXCEPT
     !.timeStart = snapToStep(clamp(st.timeMin, st.timeMax, st.timeStart), st.timeStep),
     !.timeEnd = snapToStep(clamp(st.timeMin, st.timeMax, st.timeEnd), st.timeStep)]

\* bounds taken as given whenever both parse, in whatever order
initDateBoundsUnordered(st, at) ==
  LET minD == coerceDateOnly(at.min_date)
      maxD == coerceDateOnly(at.max_date)
      dflt == minD = NoDate \/ maxD = NoDate
      lo   == IF dflt THEN todayLocal - DefaultWindowDays ELSE minD
      hi   == IF dflt THEN todayLocal ELSE maxD
  IN  [st EXCEPT !.minDate = lo, !.maxDate = hi,
                 !.dateMin = 0, !.dateMax = daysBetween(lo, hi)]

\* #initDateBounds(), reading the min-date and max-date attributes
initDateBounds(st, at) ==
  LET minD == coerceDateOnly(at.min_date)
      maxD == coerceDateOnly(at.max_date)
      dflt == minD = NoDate \/ maxD = NoDate \/ minD > maxD
      lo   == IF dflt THEN todayLocal - DefaultWindowDays ELSE minD
      hi   == IF dflt THEN todayLocal ELSE maxD
  IN  [st EXCEPT !.minDate = lo, !.maxDate = hi,
                 !.dateMin = 0, !.dateMax = daysBetween(lo, hi)]

\* Math.max(1, parseInt(newVal ?? dflt, 10) || dflt) of attributeChangedCallback
stepOfAttribute(v, dflt) ==
  LET parsed == IF v.kind = "num" THEN v.n ELSE dflt   \* NaN || dflt
  IN  Max(1, IF parsed = 0 THEN dflt ELSE parsed)

\* the step lines of #initDefaults: a NaN leaves the field as it is
stepOfInit(v, dflt, cur) ==
  CASE v.kind = "absent" -> Max(1, dflt)
    [] v.kind = "num" -> Max(1, v.n)
    [] OTHER -> cur

\* #initDefaults(), sysTZ being the zone the host resolves
initDefaults(st, at, sysTZ) ==
  LET attrTZ == at.default_tz
      tz == IF attrTZ # Null /\ attrTZ # "" THEN attrTZ
            ELSE IF sysTZ # "" THEN sysTZ ELSE "UTC"
      s1 == initDateBounds([st EXCEPT !.timeZone = tz], at)
  IN  [s1 EXCEPT !.dateStart = s1.dateMin, !.dateEnd = s1.dateMax,
                 !.timeStep = stepOfInit(at.time_step, DefaultTimeStep, st.timeStep),
                 !.dateStepDays = stepOfInit(at.date_step_days, DefaultDateStep, st.dateStepDays)]

\* a detail object whose range end stays on the end date
DetailSameDay(st, h24) ==
  LET dS == idxToDate(st, st.dateStart)
      dE == idxToDate(st, st.dateEnd)
      sT == minToHMS(st.timeStart)
      eT == minToHMS(st.timeEnd)
      cS == CivilFromDays(dS)
      cE == CivilFromDays(dE)
  IN  [dateStart |-> fmtDateISO(dS), dateEnd |-> fmtDateISO(dE),
       timeStart |-> sT, timeEnd |-> eT,
       timeZone |-> st.timeZone, crossesMidnight |-> st.timeEnd < st.timeStart,
       timeStartMinutes |-> st.timeStart, timeEndMinutes |-> st.timeEnd,
       rangeStartDateTimeISO |->
         toISOWithOffset(st.timeZone, cS.y, cS.m, cS.d, sT[1], sT[2], h24),
       rangeEndDateTimeISO |->
         toISOWithOffset(st.timeZone, cE.y, cE.m, cE.d, eT[1], eT[2], h24)]

\* the detail object of #emit
Detail(st, h24) ==
  LET dS == idxToDate(st, st.dateStart)
      dE == idxToDate(st, st.dateEnd)
      sT == minToHMS(st.timeStart)
      eT == minToHMS(st.timeEnd)
      crossesMidnight == st.timeEnd < st.timeStart
      endDateForRange == IF crossesMidnight THEN dE + 1 ELSE dE
      cS == CivilFromDays(dS)
      cE == CivilFromDays(endDateForRange)
  IN  [dateStart |-> fmtDateISO(dS), dateEnd |-> fmtDateISO(dE),
       timeStart |-> sT, timeEnd |-> eT,
       timeZone |-> st.timeZone, crossesMidnight |-> crossesMidnight,
       timeStartMinutes |-> st.timeStart, timeEndMinutes |-> st.timeEnd,
       rangeStartDateTimeISO |->
         toISOWithOffset(st.timeZone, cS.y, cS.m, cS.d, sT[1], sT[2], h24),
       rangeEndDateTimeISO |->
         toISOWithOffset(st.timeZone, cE.y, cE.m, cE.d, eT[1], eT[2], h24)]

(***************************************************************************)
(* Execution context of one handler: the state it has written so far, the  *)
(* events it has dispatched, and whether an exception is propagating (then *)
(* the remaining statements do not run).                                   *)
(***************************************************************************)
Ctx == [S |-> S, tz |-> tzInput, out |-> <<>>, threw |-> FALSE,
        els |-> els, h24 |-> hour24]

\* an assignment to #state
write(c, st) == IF c.threw THEN c ELSE [c EXCEPT !.S = st]

\* #renderTZ(): writes the input, then formats in the zone; the formatter throws
\* a RangeError for an unknown zone and for an Invalid Date, and E.tzInput is
\* undefined before the template is attached
renderTZ(c) ==
  IF c.threw THEN c
  ELSE IF ~c.els THEN [c EXCEPT !.threw = TRUE]
  ELSE LET c1 == [c EXCEPT !.tz.value = c.S.timeZone]
       IN  IF isValidTimeZone(c.S.timeZone) /\ c.S.dateStart # NaN THEN c1
           ELSE [c1 EXCEPT !.threw = TRUE]

\* #renderDate(): writes thumbs, inputs, fill and ticks; undefined elements
\* before the template is attached
renderDate(c) ==
  IF c.threw THEN c
  ELSE IF ~c.els THEN [c EXCEPT !.threw = TRUE]
  ELSE c

\* #renderTime(): as #renderDate, and ends with #renderTZ()
renderTime(c) ==
  IF c.threw THEN c
  ELSE IF ~c.els THEN [c EXCEPT !.threw = TRUE]
  ELSE renderTZ(c)

\* #emit(type): builds the payload (formatting in the zone) and dispatches it.
\* The dispatched event is kept as its type and the #state it was built from;
\* its detail object is Detail of that state.
emit(c, type) ==
  IF c.threw THEN c
  ELSE IF ~isValidTimeZone(c.S.timeZone) THEN [c EXCEPT !.threw = TRUE]
  \* formatToParts of an Invalid Date throws a RangeError
  ELSE IF c.S.dateStart = NaN \/ c.S.dateEnd = NaN THEN [c EXCEPT !.threw = TRUE]
  ELSE [c EXCEPT !.out = Append(c.out, [type |-> type, state |-> c.S])]

(***************************************************************************)
(* Track gestures (#makeTrackInteractive)                                  *)
(***************************************************************************)
\* the remainder alone, without the second reduction
wrapTrunc(v) == JSRem(v, mod)

\* wrap = (v) => ((v % mod) + mod) % mod
wrap(v) == JSRem(JSRem(v, mod) + mod, mod)

\* the closure created by onPointerDown: down point, rect.width, the dragged
\* latch and the init snapshot
NewSession(st, isDate, x, y, w) ==
  [downX |-> x, downY |-> y, width |-> w, dragged |-> FALSE,
   init |-> IF isDate
            THEN [a |-> st.dateStart, b |-> st.dateEnd, min |-> st.dateMin,
                  max |-> st.dateMax, step |-> st.dateStepDays,
                  span |-> st.dateMax - st.dateMin]
            ELSE [a |-> st.timeStart, b |-> st.timeEnd, min |-> st.timeMin,
                  max |-> st.timeMax, step |-> st.timeStep,
                  span |-> st.timeMax - st.timeMin]]

\* Math.hypot(dx, dy) > CLICK_PX_THRESHOLD
pastThreshold(dx, dy) == dx * dx + dy * dy > CLICK_PX_THRESHOLD * CLICK_PX_THRESHOLD

\* Math.round(ratio * n) with ratio = rect.width ? dx / rect.width : 0
ratioTimes(dx, w, n) == IF w = 0 THEN 0 ELSE RoundDiv(dx * n, w)

\* the shift of the date branch of onPointerMove for a displacement dx
dateDragShift(init, dx, w) ==
  LET shift0 == ratioTimes(dx, w, init.span)
      shift1 == RoundDiv(shift0, init.step) * init.step
      minShiftStep == CeilDiv(init.min - init.a, init.step) * init.step
      maxShiftStep == FloorDiv(init.max - init.b, init.step) * init.step
  IN  Max(minShiftStep, Min(maxShiftStep, shift1))

\* the shift of the time branch of onPointerMove for a displacement dx
timeDragShift(init, dx, w) ==
  LET shift0 == ratioTimes(dx, w, init.span + 1)
  IN  RoundDiv(shift0, init.step) * init.step

\* the date branch of onPointerMove
dragDates(c, init, shift) ==
  emit(renderDate(write(c, [c.S EXCEPT !.dateStart = init.a + shift,
                                       !.dateEnd = init.b + shift])), "input")

\* the time branch of onPointerMove
dragTimes(c, init, shift) ==
  emit(renderTime(write(c, [c.S EXCEPT !.timeStart = wrap(init.a + shift),
                                       !.timeEnd = wrap(init.b + shift)])), "input")

\* onPointerMove of one session: the context and the session afterwards
onPointerMove(c, ss, isDate, x, y) ==
  LET dx == x - ss.downX
      dy == y - ss.downY
      dragged == ss.dragged \/ pastThreshold(dx, dy)
      s1 == [ss EXCEPT !.dragged = dragged]
  IN  IF ~dragged THEN [c |-> c, ss |-> s1]
      ELSE IF isDate
           THEN [c |-> dragDates(c, ss.init, dateDragShift(ss.init, dx, ss.width)), ss |-> s1]
           ELSE [c |-> dragTimes(c, ss.init, timeDragShift(ss.init, dx, ss.width)), ss |-> s1]

\* #recenterDateAt(ratio), ratio = num / den in [0, 1]
recenterDateShift(st, num, den) ==
  LET span == st.dateMax - st.dateMin
      \* shift = targetCenter - currentCenter, as a fraction over 2 * den
      shift2 == 2 * den * st.dateMin + 2 * num * span - (st.dateStart + st.dateEnd) * den
      shift1 == RoundDiv(shift2, 2 * den * st.dateStepDays) * st.dateStepDays
      minShiftStep == CeilDiv(st.dateMin - st.dateStart, st.dateStepDays) * st.dateStepDays
      maxShiftStep == FloorDiv(st.dateMax - st.dateEnd, st.dateStepDays) * st.dateStepDays
  IN  Max(minShiftStep, Min(maxShiftStep, shift1))

recenterDateAt(c, num, den) ==
  LET shift == recenterDateShift(c.S, num, den)
  IN  emit(renderDate(write(c, [c.S EXCEPT !.dateStart = c.S.dateStart + shift,
                                           !.dateEnd = c.S.dateEnd + shift])), "input")

\* the wrap-aware width of #recenterTimeAt
timeWidth(s, e) == IF e >= s THEN e - s ELSE mod - s + e

\* #recenterTimeAt(ratio), ratio = num / den in [0, 1]
recenterTimeShift(st, num, den) ==
  LET width == timeWidth(st.timeStart, st.timeEnd)
      \* center = (timeStart + width / 2) % mod, in half minutes
      center2 == JSRem(JSRem(2 * st.timeStart + width, 2 * mod) + 2 * mod, 2 * mod)
      target == wrap(RoundDiv(num * (mod - 1), den))
  IN  RoundDiv(2 * target - center2, 2 * st.timeStep) * st.timeStep

recenterTimeAt(c, num, den) ==
  LET shift == recenterTimeShift(c.S, num, den)
  IN  emit(renderTime(write(c, [c.S EXCEPT !.timeStart = wrap(c.S.timeStart + shift),
                                           !.timeEnd = wrap(c.S.timeEnd + shift)])), "input")

\* onPointerUp of one session, for a release at x on a track now wNow wide: the
\* context afterwards; its listeners are removed unless an error cut it short
onPointerUp(c, ss, isDate, x, wNow) ==
  IF ~ss.dragged
  THEN LET num == IF wNow = 0 THEN 1 ELSE Min(wNow, Max(0, x))
           den == IF wNow = 0 THEN 2 ELSE wNow
           c1  == IF isDate THEN recenterDateAt(c, num, den) ELSE recenterTimeAt(c, num, den)
       IN  emit(c1, "change")
  ELSE emit(c, "change")

\* dispatch of a pointermove to the registered onPointerMove listeners, in
\* order; an error in one listener does not stop the others
RECURSIVE moveAll(_, _, _, _, _, _, _)
moveAll(c, list, i, isDate, x, y, anyThrew) ==
  IF i > Len(list) THEN [c |-> [c EXCEPT !.threw = anyThrew], list |-> list]
  ELSE LET r == onPointerMove([c EXCEPT !.threw = FALSE], list[i], isDate, x, y)
       IN  moveAll(r.c, [list EXCEPT ![i] = r.ss], i + 1, isDate, x, y,
                   anyThrew \/ r.c.threw)

\* dispatch of a pointerup / pointercancel to the registered onPointerUp
\* listeners; kept holds the sessions whose listeners stay registered
RECURSIVE upAll(_, _, _, _, _, _, _, _)
upAll(c, list, i, isDate, x, wNow, kept, anyThrew) ==
  IF i > Len(list) THEN [c |-> [c EXCEPT !.threw = anyThrew], list |-> kept]
  ELSE LET c1 == onPointerUp([c EXCEPT !.threw = FALSE], list[i], isDate, x, wNow)
       IN  upAll(c1, list, i + 1, isDate, x, wNow,
                 IF c1.threw THEN Append(kept, list[i]) ELSE kept,
                 anyThrew \/ c1.threw)

(***************************************************************************)
(* Initial state: the element as constructed, no attribute set             *)
(***************************************************************************)
\* the operation just performed: its name, the track, field or text it is about,
\* one numeric input, the selection (a, b) it found or was given, and for a
\* pointer event the listeners that ran (n) and those that moved the selection
\* (acted)
OpG(name, kind, x, a, b, acted, n) ==
  [op |-> name, kind |-> kind, x |-> x, a |-> a, b |-> b, acted |-> acted, n |-> n]
Op(name, kind, x, a, b) == OpG(name, kind, x, a, b, 0, 0)
NoOp == Op("new", "", 0, 0, 0)

InitWith(h24s) ==
  /\ ready = FALSE
  /\ els = FALSE
  /\ attrs = [min_date |-> Absent, max_date |-> Absent, time_step |-> Absent,
              date_step_days |-> Absent, default_tz |-> Null]
  /\ S = InitState
  /\ prevTZ = Null
  /\ tzInput = [value |-> "", invalid |-> FALSE, focused |-> FALSE]
  /\ sessions = [date |-> <<>>, time |-> <<>>]
  /\ gestures = 0
  /\ hour24 \in h24s
  /\ emitted = <<>>
  /\ threw = FALSE
  /\ last = NoOp

\* what a handler that ran in context c leaves behind
Done(c) ==
  /\ S' = c.S
  /\ tzInput' = c.tz
  /\ emitted' = c.out
  /\ threw' = c.threw

\* a handler that returns before touching anything
Returned ==
  /\ emitted' = <<>>
  /\ threw' = FALSE
  /\ UNCHANGED <<S, tzInput>>

(***************************************************************************)
(* connectedCallback, after the template has loaded                        *)
(***************************************************************************)
Connect(sysZones) ==
  /\ ~els
  /\ \E sysTZ \in sysZones :
       LET st == initDefaults(S, attrs, sysTZ)
           \* #populateTimeZones(): fills the input, then #renderTZ()
           c0 == [Ctx EXCEPT !.els = TRUE, !.S = st,
                             !.tz = [value |-> st.timeZone, invalid |-> FALSE,
                                     focused |-> FALSE]]
           c1 == renderTZ(c0)
           \* #wireEvents(), #enableTrackDraggingAndRecenter(), #ready = true,
           \* #renderAll()
           c2 == renderTime(renderDate(renderTZ(c1)))
       IN  /\ Done(c2)
           /\ ready' = ~c2.threw
  /\ els' = TRUE
  /\ last' = Op("connect", "", 0, 0, 0)
  /\ UNCHANGED <<attrs, prevTZ, sessions, gestures, hour24>>

(***************************************************************************)
(* attributeChangedCallback(name, oldVal, newVal)                          *)
(***************************************************************************)
\* min-date / max-date
AttrDate(name, vals) ==
  /\ \E v \in vals :
       LET old == IF name = "min-date" THEN attrs.min_date ELSE attrs.max_date
           at  == IF name = "min-date" THEN [attrs EXCEPT !.min_date = v]
                  ELSE [attrs EXCEPT !.max_date = v]
       IN  /\ attrs' = at
           /\ IF old = v \/ ~ready THEN Returned
              ELSE Done(emit(renderDate(write(Ctx,
                     clampAndSyncDates(initDateBounds(S, at)))), "change"))
           /\ last' = Op("attribute", name, IF old = v THEN 0 ELSE 1,
                         S.dateStart, S.dateEnd)
  /\ UNCHANGED <<ready, els, prevTZ, sessions, gestures, hour24>>

\* time-step handled as if it re-clamped the selection onto the new grid
AttrTimeStepSnapped(vals) ==
  /\ \E v \in vals :
       LET n  == stepOfAttribute(v, DefaultTimeStep)
           st == clampAndSyncTimes([S EXCEPT !.timeStep = n])
       IN  /\ attrs' = [attrs EXCEPT !.time_step = v]
           /\ IF attrs.time_step = v THEN Returned
              ELSE IF ~ready
                   THEN Done(write(Ctx, st))
                   ELSE Done(emit(renderTime(write(Ctx, st)), "change"))
           /\ last' = Op("attribute", "time-step", IF attrs.time_step = v THEN 0 ELSE 1,
                         S.timeStart, S.timeEnd)
  /\ UNCHANGED <<ready, els, prevTZ, sessions, gestures, hour24>>

\* time-step
AttrTimeStep(vals) ==
  /\ \E v \in vals :
       LET n == stepOfAttribute(v, DefaultTimeStep)
       IN  /\ attrs' = [attrs EXCEPT !.time_step = v]
           /\ IF attrs.time_step = v THEN Returned
              ELSE IF ~ready
                   THEN Done(write(Ctx, [S EXCEPT !.timeStep = n]))
                   ELSE Done(emit(renderTime(write(Ctx, [S EXCEPT !.timeStep = n])),
                                  "change"))
           /\ last' = Op("attribute", "time-step", IF attrs.time_step = v THEN 0 ELSE 1,
                         S.timeStart, S.timeEnd)
  /\ UNCHANGED <<ready, els, prevTZ, sessions, gestures, hour24>>

\* date-step-days
AttrDateStep(vals) ==
  /\ \E v \in vals :
       LET n == stepOfAttribute(v, DefaultDateStep)
       IN  /\ attrs' = [attrs EXCEPT !.date_step_days = v]
           /\ IF attrs.date_step_days = v THEN Returned
              ELSE IF ~ready
                   THEN Done(write(Ctx, [S EXCEPT !.dateStepDays = n]))
                   ELSE Done(emit(renderDate(write(Ctx, [S EXCEPT !.dateStepDays = n])),
                                  "change"))
           /\ last' = Op("attribute", "date-step-days",
                         IF attrs.date_step_days = v THEN 0 ELSE 1,
                         S.dateStart, S.dateEnd)
  /\ UNCHANGED <<ready, els, prevTZ, sessions, gestures, hour24>>

\* default-tz; once ready it ends with #populateTimeZones(), #renderTZ(), #emit
AttrDefaultTz(vals) ==
  /\ \E v \in vals :
       LET st == IF v # Null /\ v # "" THEN [S EXCEPT !.timeZone = v] ELSE S
           c0 == write(Ctx, st)
           c1 == renderTZ([c0 EXCEPT !.tz.value = st.timeZone, !.tz.invalid = FALSE])
       IN  /\ attrs' = [attrs EXCEPT !.default_tz = v]
           /\ IF attrs.default_tz = v THEN Returned
              ELSE IF ~ready THEN Done(c0)
              ELSE Done(emit(renderTZ(c1), "change"))
           /\ last' = Op("attribute", "default-tz", IF attrs.default_tz = v THEN 0 ELSE 1,
                         0, 0)
  /\ UNCHANGED <<ready, els, prevTZ, sessions, gestures, hour24>>

(***************************************************************************)
(* Public API setters                                                      *)
(***************************************************************************)
\* set dateRange(v); #dateToIdx dereferences #state.minDate, null until
\* #initDateBounds has run
SetDateRangeTo(vs, ve) ==
  /\ LET start == coerceDateOnly(vs)
         end   == coerceDateOnly(ve)
     IN  /\ IF start = NoDate \/ end = NoDate THEN Returned
            ELSE IF S.minDate = NoDate THEN Done([Ctx EXCEPT !.threw = TRUE])
            ELSE Done(emit(renderDate(write(Ctx,
                   clampAndSyncDates([S EXCEPT !.dateStart = dateToIdx(S, start),
                                               !.dateEnd = dateToIdx(S, end)]))),
                   "change"))
         /\ last' = Op("setDateRange", "date",
                       IF start = NoDate \/ end = NoDate THEN 0 ELSE 1,
                       S.dateStart, S.dateEnd)
  /\ UNCHANGED <<ready, els, attrs, prevTZ, sessions, gestures, hour24>>

\* set dateRange with start and end drawn from vals
SetDateRange(vals) == \E vs \in vals, ve \in vals : SetDateRangeTo(vs, ve)

\* set timeRange(v)
SetTimeRange(vals) ==
  /\ \E vs \in vals, ve \in vals :
       LET s == clamp(0, 1439, vs)
           e == clamp(0, 1439, ve)
       IN  /\ Done(emit(renderTime(write(Ctx,
                     clampAndSyncTimes([S EXCEPT !.timeStart = s, !.timeEnd = e]))),
                     "change"))
           /\ last' = Op("setTimeRange", "time", 1, s, e)
  /\ UNCHANGED <<ready, els, attrs, prevTZ, sessions, gestures, hour24>>

\* set timeZone(v)
SetTimeZone(vals) ==
  /\ \E v \in vals :
       /\ IF v = Null \/ v = "" THEN Returned
          ELSE Done(emit(renderTZ(write(Ctx, [S EXCEPT !.timeZone = v])), "change"))
       /\ last' = Op("setTimeZone", v, 0, 0, 0)
  /\ UNCHANGED <<ready, els, attrs, prevTZ, sessions, gestures, hour24>>

(***************************************************************************)
(* Time zone input (#wireEvents)                                           *)
(***************************************************************************)
\* commitTZ(tz, kind)
commitTZ(c, tz, kind) ==
  LET c1 == write(c, [c.S EXCEPT !.timeZone = tz])
  IN  emit(renderTZ([c1 EXCEPT !.tz.invalid = FALSE]), kind)

\* the restore branch shared by onTZChange and the blur listener
restoreTZ(c, prev) ==
  LET restore == IF prev # Null THEN prev ELSE c.S.timeZone
  IN  emit(renderTZ([c EXCEPT !.tz.value = restore, !.tz.invalid = FALSE]), "change")

\* onTZInput, the input holding text
onTZInput(c) ==
  LET val == trim(c.tz.value)
  IN  IF val = "" THEN [c EXCEPT !.tz.invalid = FALSE]
      ELSE IF isValidTimeZone(val) THEN commitTZ(c, val, "input")
      ELSE [c EXCEPT !.tz.invalid = TRUE]

\* onTZChange
onTZChange(c, prev) ==
  LET val == trim(c.tz.value)
  IN  IF val = "" THEN restoreTZ(c, prev)
      ELSE IF isValidTimeZone(val) THEN commitTZ(c, val, "change")
      ELSE restoreTZ(c, prev)

\* the focus listener
TZFocus ==
  /\ ready /\ ~tzInput.focused
  /\ prevTZ' = S.timeZone
  /\ tzInput' = [value |-> "", invalid |-> FALSE, focused |-> TRUE]
  /\ emitted' = <<>> /\ threw' = FALSE
  /\ last' = Op("tzFocus", "", 0, 0, 0)
  /\ UNCHANGED <<ready, els, attrs, S, sessions, gestures, hour24>>

\* the user edits the text to txt; the input event runs onTZInput
TZType(texts) ==
  /\ ready /\ tzInput.focused
  /\ \E txt \in texts :
       /\ Done(onTZInput([Ctx EXCEPT !.tz.value = txt]))
       /\ last' = Op("tzInput", txt, 0, 0, 0)
  /\ UNCHANGED <<ready, els, attrs, prevTZ, sessions, gestures, hour24>>

\* the change event (the edited text is committed)
TZChange ==
  /\ ready /\ tzInput.focused
  /\ Done(onTZChange(Ctx, prevTZ))
  /\ last' = Op("tzChange", tzInput.value, 0, 0, 0)
  /\ UNCHANGED <<ready, els, attrs, prevTZ, sessions, gestures, hour24>>

\* keydown Escape
TZEscape ==
  /\ ready /\ tzInput.focused
  /\ tzInput' = [tzInput EXCEPT !.value = "", !.invalid = FALSE]
  /\ emitted' = <<>> /\ threw' = FALSE
  /\ last' = Op("tzEscape", "", 0, 0, 0)
  /\ UNCHANGED <<ready, els, attrs, S, prevTZ, sessions, gestures, hour24>>

\* the blur listener
TZBlur ==
  /\ ready /\ tzInput.focused
  /\ LET c0 == [Ctx EXCEPT !.tz.focused = FALSE]
     IN  Done(IF trim(tzInput.value) = "" THEN restoreTZ(c0, prevTZ) ELSE c0)
  /\ last' = Op("tzBlur", tzInput.value, 0, 0, 0)
  /\ UNCHANGED <<ready, els, attrs, prevTZ, sessions, gestures, hour24>>

(***************************************************************************)
(* Date and time inputs and thumbs (#wireEvents)                           *)
(***************************************************************************)
\* input on E.dateStart (which = "start") or E.dateEnd (which = "end")
DateTextInput(which, vals) ==
  /\ ready
  /\ \E v \in vals :
       LET d  == coerceDateOnly(v)
           st == IF which = "start" THEN [S EXCEPT !.dateStart = dateToIdx(S, d)]
                 ELSE [S EXCEPT !.dateEnd = dateToIdx(S, d)]
       IN  /\ IF d = NoDate THEN Returned
              ELSE Done(emit(renderDate(write(Ctx, clampAndSyncDates(st))), "input"))
           /\ last' = Op("dateText", which, IF d = NoDate THEN 0 ELSE 1,
                         S.dateStart, S.dateEnd)
  /\ UNCHANGED <<ready, els, attrs, prevTZ, sessions, gestures, hour24>>

\* a value a range input can hold once #renderDate / #renderTime has set its
\* min, max and step: within the bounds, a whole number of steps above min
onThumbGrid(v, min, max, step) == min <= v /\ v <= max /\ (v - min) % step = 0

\* onDateThumb, the two thumbs holding a and b
DateThumbInput(vals) ==
  /\ ready
  /\ \E a \in vals, b \in vals :
       /\ onThumbGrid(a, S.dateMin, S.dateMax, S.dateStepDays)
       /\ onThumbGrid(b, S.dateMin, S.dateMax, S.dateStepDays)
       /\ Done(emit(renderDate(write(Ctx,
            clampAndSyncDates([S EXCEPT !.dateStart = a, !.dateEnd = b]))), "input"))
       /\ last' = Op("dateThumb", "date", 1, a, b)
  /\ UNCHANGED <<ready, els, attrs, prevTZ, sessions, gestures, hour24>>

\* parseTime(val)
parseTime(val) ==
  IF val.kind # "hm" THEN -1
  ELSE IF val.H > 23 \/ val.M > 59 THEN -1
  ELSE val.H * 60 + val.M

\* input on E.timeStart (which = "start") or E.timeEnd (which = "end")
TimeTextInput(which, vals) ==
  /\ ready
  /\ \E v \in vals :
       LET m  == parseTime(v)
           st == IF which = "start" THEN [S EXCEPT !.timeStart = m]
                 ELSE [S EXCEPT !.timeEnd = m]
       IN  /\ IF m = -1 THEN Returned
              ELSE Done(emit(renderTime(write(Ctx, clampAndSyncTimes(st))), "input"))
           /\ last' = Op("timeText", which, IF m = -1 THEN 0 ELSE 1,
                         S.timeStart, S.timeEnd)
  /\ UNCHANGED <<ready, els, attrs, prevTZ, sessions, gestures, hour24>>

\* onTimeThumb, the two thumbs holding a and b
TimeThumbInput(vals) ==
  /\ ready
  /\ \E a \in vals, b \in vals :
       /\ onThumbGrid(a, S.timeMin, S.timeMax, S.timeStep)
       /\ onThumbGrid(b, S.timeMin, S.timeMax, S.timeStep)
       /\ Done(emit(renderTime(write(Ctx,
            clampAndSyncTimes([S EXCEPT !.timeStart = a, !.timeEnd = b]))), "input"))
       /\ last' = Op("timeThumb", "time", 1, a, b)
  /\ UNCHANGED <<ready, els, attrs, prevTZ, sessions, gestures, hour24>>

\* the change listeners of the four thumbs
ThumbChange(kind) ==
  /\ ready
  /\ Done(emit(Ctx, "change"))
  /\ last' = Op("thumbChange", kind, 0, 0, 0)
  /\ UNCHANGED <<ready, els, attrs, prevTZ, sessions, gestures, hour24>>

(***************************************************************************)
(* Pointer events on a track                                               *)
(***************************************************************************)
Track(kind) == IF kind = "date" THEN sessions.date ELSE sessions.time
WithTrack(kind, list) ==
  IF kind = "date" THEN [sessions EXCEPT !.date = list]
  ELSE [sessions EXCEPT !.time = list]
SelStart(kind) == IF kind = "date" THEN S.dateStart ELSE S.timeStart
SelEnd(kind) == IF kind = "date" THEN S.dateEnd ELSE S.timeEnd

\* onPointerDown
PointerDown(kind, buttons, xs, widths) ==
  /\ ready
  /\ gestures < MaxGestures
  /\ \E button \in buttons, x \in xs, w \in widths :
       /\ IF button # 0 THEN UNCHANGED <<sessions, gestures>>
          ELSE /\ sessions' = WithTrack(kind,
                     Append(Track(kind), NewSession(S, kind = "date", x, 0, w)))
               /\ gestures' = gestures + 1
       /\ last' = Op("pointerdown", kind, button, 0, 0)
  /\ Returned
  /\ UNCHANGED <<ready, els, attrs, prevTZ, hour24>>

\* a pointermove on the track
PointerMove(kind, xs, ys) ==
  /\ ready
  /\ \E x \in xs, y \in ys :
       LET r == moveAll(Ctx, Track(kind), 1, kind = "date", x, y, FALSE)
       IN  /\ Done(r.c)
           /\ sessions' = WithTrack(kind, r.list)
           /\ last' = OpG("pointermove", kind, x, 0, 0,
                          Cardinality({i \in 1..Len(r.list) : r.list[i].dragged}),
                          Len(r.list))
  /\ UNCHANGED <<ready, els, attrs, prevTZ, gestures, hour24>>

\* a pointerup or pointercancel on the track
PointerUp(kind, xs, widths) ==
  /\ ready
  /\ \E x \in xs, wNow \in widths :
       LET r == upAll(Ctx, Track(kind), 1, kind = "date", x, wNow, <<>>, FALSE)
       IN  /\ Done(r.c)
           /\ sessions' = WithTrack(kind, r.list)
           /\ last' = OpG("pointerup", kind, x, SelStart(kind), SelEnd(kind),
                          Cardinality({i \in 1..Len(Track(kind)) : ~Track(kind)[i].dragged}),
                          Len(Track(kind)))
  /\ UNCHANGED <<ready, els, attrs, prevTZ, gestures, hour24>>

(***************************************************************************)
(* Inputs                                                                  *)
(***************************************************************************)
SysZones == {"UTC", "America/New_York"}
DateAttrs == {Absent, DateText(2026, 2, 1), DateText(2026, 2, 28)}
DateStepAttrs == {Absent, Unparsed, NumText(0), NumText(4), NumText(7)}
TimeStepAttrs == {Absent, Unparsed, NumText(0), NumText(-5), NumText(7), NumText(60)}
ZoneAttrs == {Null, "", "Europe/Berlin", "Mars/Phobos"}
ZoneValues == {"", "Asia/Tokyo", "Mars/Phobos"}
ZoneTexts == {"", " ", "Eur", "Europe/Berlin"}
DateValues == {Unparsed, DateText(2026, 1, 15), DateText(2026, 2, 14),
               DateText(2026, 2, 28), DateText(2026, 3, 3)}
DateThumbs == {0, 10, 27, 30}
TimeValues == {-10, 0, 5, 360, 1320, 1439}
TimeTexts == {NoTime, TimeText(24, 0), TimeText(6, 0), TimeText(23, 59)}
TimeThumbs == {0, 720, 1439}
Buttons == {0, 2}
DownXs == {60}
MoveXs == {53, 60, 70}
MoveYs == {0, 8}
UpXs == {-5, 120}
Widths == {0, 120}
DownWidths == {120}
BoundAttrs == {Absent, Unparsed, DateText(2026, 2, 1), DateText(2026, 2, 28)}
\* what a date input can hold ("" or a date) and what a caller can pass as
\* start or end of dateRange
TextDates == {Unparsed, DateText(2026, 2, 14), DateText(2026, 2, 20)}
DateArgs == {Absent, Unparsed, InvalidDate, DateText(2026, 2, 14), DateText(2026, 2, 20)}

(***************************************************************************)
(* Specifications.  Every action is a whole handler; a specification takes *)
(* the handlers of one part of the component, so that the reachable states *)
(* stay enumerable.                                                        *)
(***************************************************************************)
\* the date range: bounds, step, setter, inputs and thumbs
NextDate ==
  \/ Connect({"UTC"})
  \/ AttrDate("min-date", DateAttrs)
  \/ AttrDate("max-date", DateAttrs)
  \/ AttrDateStep(DateStepAttrs)
  \/ SetDateRange(DateValues)
  \/ DateTextInput("start", DateValues)
  \/ DateTextInput("end", DateValues)
  \/ DateThumbInput(DateThumbs)
  \/ ThumbChange("date")
SpecDate == InitWith({FALSE}) /\ [][NextDate]_vars

\* the date track: gestures on the selections the setter and the step produce
NextDateTrack ==
  \/ Connect({"UTC"})
  \/ AttrDateStep({NumText(4)})
  \/ SetDateRange({DateText(2026, 2, 1), DateText(2026, 3, 3)})
  \/ PointerDown("date", Buttons, DownXs, DownWidths)
  \/ PointerMove("date", MoveXs, MoveYs)
  \/ PointerUp("date", UpXs, Widths)
SpecDateTrack == InitWith({FALSE}) /\ [][NextDateTrack]_vars

\* the time-of-day range: step, setter, inputs and thumbs
NextTime ==
  \/ Connect({"UTC"})
  \/ AttrTimeStep(TimeStepAttrs)
  \/ SetTimeRange(TimeValues)
  \/ TimeTextInput("start", TimeTexts)
  \/ TimeTextInput("end", TimeTexts)
  \/ TimeThumbInput(TimeThumbs)
  \/ ThumbChange("time")
SpecTime == InitWith({FALSE}) /\ [][NextTime]_vars

\* the time track: gestures on the selections the setter produces
NextTimeTrack ==
  \/ Connect({"UTC"})
  \/ SetTimeRange({0, 1439})
  \/ PointerDown("time", Buttons, DownXs, DownWidths)
  \/ PointerMove("time", MoveXs, MoveYs)
  \/ PointerUp("time", UpXs, Widths)
SpecTimeTrack == InitWith({FALSE}) /\ [][NextTimeTrack]_vars

\* the public API and the bounds attributes: what the emitted payload carries
NextApi ==
  \/ Connect(SysZones)
  \/ AttrDate("min-date", {DateText(2026, 2, 1)})
  \/ AttrDate("max-date", {DateText(2026, 2, 28)})
  \/ SetDateRange({Unparsed, DateText(2026, 2, 1), DateText(2026, 2, 28)})
  \/ SetTimeRange({360, 1320, 1439})
  \/ SetTimeZone({"UTC", "America/New_York", "Mars/Phobos"})
SpecApi == InitWith(BOOLEAN) /\ [][NextApi]_vars

\* the life cycle and the time zone: attributes before and after ready, the
\* zone input, the zone setter
NextZone ==
  \/ Connect(SysZones)
  \/ AttrDate("min-date", {DateText(2026, 2, 1)})
  \/ AttrDate("max-date", {DateText(2026, 2, 28)})
  \/ AttrTimeStep({NumText(0), NumText(60)})
  \/ AttrDateStep({NumText(0), NumText(4)})
  \/ AttrDefaultTz(ZoneAttrs)
  \/ SetTimeZone(ZoneValues)
  \/ TZFocus
  \/ TZType(ZoneTexts)
  \/ TZChange
  \/ TZEscape
  \/ TZBlur
SpecZone == InitWith({FALSE}) /\ [][NextZone]_vars

\* text entry: the date and time inputs and the dateRange setter, with values
\* their parsers accept and values they do not
NextText ==
  \/ Connect({"UTC"})
  \/ DateTextInput("start", TextDates)
  \/ DateTextInput("end", TextDates)
  \/ TimeTextInput("start", TimeTexts)
  \/ TimeTextInput("end", TimeTexts)
  \/ SetDateRange(DateArgs)
SpecText == InitWith({FALSE}) /\ [][NextText]_vars

\* the date bounds: min-date and max-date before and after ready, in order,
\* swapped, missing or not a date
NextBounds ==
  \/ Connect({"UTC"})
  \/ AttrDate("min-date", BoundAttrs)
  \/ AttrDate("max-date", BoundAttrs)
  \/ SetDateRange({DateText(2026, 2, 14), DateText(2026, 2, 28)})
SpecBounds == InitWith({FALSE}) /\ [][NextBounds]_vars

\* the date track while the window is changed through max-date
NextDragBounds ==
  \/ Connect({"UTC"})
  \/ AttrDate("min-date", {DateText(2026, 2, 1)})
  \/ AttrDate("max-date", {DateText(2026, 2, 14), DateText(2026, 2, 28)})
  \/ SetDateRange({DateText(2026, 2, 5)})
  \/ PointerDown("date", {0}, DownXs, DownWidths)
  \/ PointerMove("date", MoveXs, MoveYs)
  \/ PointerUp("date", UpXs, Widths)
SpecDragBounds == InitWith({FALSE}) /\ [][NextDragBounds]_vars

\* the window moved under a selection that lies inside it
NextRebase ==
  \/ Connect({"UTC"})
  \/ AttrDate("min-date", {DateText(2026, 2, 1), DateText(2026, 2, 10)})
  \/ AttrDate("max-date", {DateText(2026, 2, 24), DateText(2026, 2, 28)})
  \/ SetDateRange({DateText(2026, 2, 14), DateText(2026, 2, 20)})
  \/ SetTimeRange({0, 600})
SpecRebase == InitWith({FALSE}) /\ [][NextRebase]_vars

\* the time track with a step that does not divide the 1440 minutes of the day
NextTimeGrid ==
  \/ Connect({"UTC"})
  \/ AttrTimeStep({NumText(7)})
  \/ SetTimeRange({0, 1435})
  \/ PointerDown("time", {0}, DownXs, DownWidths)
  \/ PointerMove("time", MoveXs, MoveYs)
  \/ PointerUp("time", UpXs, Widths)
SpecTimeGrid == InitWith({FALSE}) /\ [][NextTimeGrid]_vars

(***************************************************************************)
(* Tick builders                                                           *)
(***************************************************************************)
DATE_TICK_TARGET == 7
TIME_TICK_TARGET == 8
DateTickCandidates == <<1, 2, 5, 7, 14, 30, 60, 90, 120, 180, 365>>
TimeTickCandidates == <<15, 30, 60, 120, 180, 240>>

\* the fraction bits of the doubles that totalDays / c is computed in
MantissaBits == 52

\* floor(log2(n / d)) for positive n and d: the binade of the quotient
RECURSIVE floorLog2(_, _)
floorLog2(n, d) ==
  IF n >= 2 * d THEN floorLog2(n, 2 * d) + 1
  ELSE IF n < d THEN floorLog2(2 * n, d) - 1
  ELSE 0

\* 2^k
RECURSIVE pow2(_)
pow2(k) == IF k = 0 THEN 1 ELSE 2 * pow2(k - 1)

\* 2^f mod c
RECURSIVE pow2mod(_, _)
pow2mod(f, c) == IF f = 0 THEN 1 % c ELSE (2 * pow2mod(f - 1, c)) % c

\* total / c as a double: the quotient is rounded to nearest, ties to even, at
\* f fraction bits; its error is e / (c * 2^f)
quotientError(total, c) ==
  LET f    == MantissaBits - floorLog2(total, c)
      rho  == ((total % c) * pow2mod(f, c)) % c
      half == ((total % c) * pow2mod(f - 1, c)) % c
      odd  == (2 * half) \div c = 1
      up   == 2 * rho > c \/ (2 * rho = c /\ odd)
  IN  [e |-> IF up THEN c - rho ELSE -rho, f |-> f]

\* the sign of total / c - target
quotientSide(total, c, target) ==
  IF total > target * c THEN 1 ELSE IF total < target * c THEN -1 ELSE 0

\* Math.abs(total / c - target) < Math.abs(total / b - target) in doubles:
\* different exact values compare as they are, equal exact values compare by
\* the rounding errors of the two quotients
diffLess(total, target, c, b) ==
  LET l == Abs(total - target * c) * b
      r == Abs(total - target * b) * c
  IN  IF l # r THEN l < r
      ELSE LET qc == quotientError(total, c)
               qb == quotientError(total, b)
               F  == Max(qc.f, qb.f)
           IN  quotientSide(total, c, target) * qc.e * b * pow2(F - qc.f)
                 < quotientSide(total, b, target) * qb.e * c * pow2(F - qb.f)

\* the for-loop of #chooseDateTickStep and #chooseTimeTickStep from candidate i
RECURSIVE tickLoop(_, _, _, _, _)
tickLoop(total, target, candidates, i, best) ==
  IF i > Len(candidates) THEN best
  ELSE Only({tickLoop(total, target, candidates, i + 1, b)
               : b \in {IF diffLess(total, target, candidates[i], best)
                        THEN candidates[i] ELSE best}})

\* #chooseDateTickStep(totalDays, target)
chooseDateTickStep(totalDays, target) ==
  tickLoop(totalDays, target, DateTickCandidates, 1, DateTickCandidates[1])

\* #chooseTimeTickStep(target), over the 1440 minutes of the day
chooseTimeTickStep(target) ==
  tickLoop(mod, target, TimeTickCandidates, 1, TimeTickCandidates[1])

\* #chooseDateTickStep applied to a window length and a target count
ChooseDateTickStep(totals, targets) ==
  /\ \E total \in totals, target \in targets :
       last' = OpG("chooseDateTickStep", "", total, target,
                   chooseDateTickStep(total, target), 0, 0)
  /\ emitted' = <<>> /\ threw' = FALSE
  /\ UNCHANGED <<ready, els, attrs, S, prevTZ, tzInput, sessions, gestures, hour24>>

\* #chooseTimeTickStep applied to a target count
ChooseTimeTickStep(targets) ==
  /\ \E target \in targets :
       last' = OpG("chooseTimeTickStep", "", mod, target,
                   chooseTimeTickStep(target), 0, 0)
  /\ emitted' = <<>> /\ threw' = FALSE
  /\ UNCHANGED <<ready, els, attrs, S, prevTZ, tzInput, sessions, gestures, hour24>>

\* window lengths of one day to about a year, and target counts around the
\* two the component uses
TickTotals == 1..40 \cup {200, 280, 365, 366}
TickTargets == {5, DATE_TICK_TARGET, TIME_TICK_TARGET, 12}

\* the tick planner on its own
NextTicks ==
  \/ ChooseDateTickStep(TickTotals, TickTargets)
  \/ ChooseTimeTickStep(TickTargets)
SpecTicks == InitWith({FALSE}) /\ [][NextTicks]_vars

\* #localToEpoch applied to the wall-clock fields (hours 0..23) that the
\* instant e has in the zone tz, on the engine the component runs on
LocalToEpoch(zones, epochs) ==
  /\ \E tz \in zones, e \in epochs :
       \E w \in {formatToParts(tz, e, FALSE)} :
         \E guess \in {DateUTC(w.year, w.month, w.day, w.hour, w.minute)} :
           \E off \in {getOffsetMinutes(tz, guess, hour24)} :
             last' = OpG("localToEpoch", tz, e,
                         localToEpoch(tz, w.year, w.month, w.day, w.hour, w.minute, hour24),
                         0, 0,
                         OffsetRecomputations(tz, guess, off, guess - off,
                                              MaxOffsetIterations, hour24))
  /\ emitted' = <<>> /\ threw' = FALSE
  /\ UNCHANGED <<ready, els, attrs, S, prevTZ, tzInput, sessions, gestures, hour24>>

\* instants every three hours over a day of February, and the hours around
\* the two spring transitions of 2026
OffsetEpochs ==
  {DateUTC(2026, 2, 14, 0, 0) + k * 3 * MinutesPerHour : k \in 0..7}
    \cup {DateUTC(2026, 3, 8, 7, 0) + k * MinutesPerHour : k \in -3..3}
    \cup {DateUTC(2026, 3, 29, 1, 0) + k * MinutesPerHour : k \in -3..3}

\* the zone arithmetic on its own, on both kinds of engine
NextOffset == LocalToEpoch(KnownZones, OffsetEpochs)
SpecOffset == InitWith(BOOLEAN) /\ [][NextOffset]_vars

\* #localToEpoch applied to a requested wall-clock time, given as the minute
\* number Date.UTC has for its fields
LocalToEpochWall(zones, walls) ==
  /\ \E tz \in zones, wall \in walls :
       \E w \in {formatToParts("UTC", wall, FALSE)} :
         last' = OpG("localToEpochWall", tz, wall,
                     localToEpoch(tz, w.year, w.month, w.day, w.hour, w.minute, hour24),
                     0, 0, 0)
  /\ emitted' = <<>> /\ threw' = FALSE
  /\ UNCHANGED <<ready, els, attrs, S, prevTZ, tzInput, sessions, gestures, hour24>>

\* wall-clock times every quarter of an hour from 01:30 to 03:30 on the two
\* spring-forward days of 2026
GapWalls ==
  {DateUTC(2026, 3, 8, 1, 30) + k * 15 : k \in 0..8}
    \cup {DateUTC(2026, 3, 29, 1, 30) + k * 15 : k \in 0..8}

\* requested local times around the spring-forward gaps, on both kinds of engine
NextGap == LocalToEpochWall(KnownZones, GapWalls)
SpecGap == InitWith(BOOLEAN) /\ [][NextGap]_vars

\* step changes on selections that lie inside the window and off the new grid
StepTimes == {5, 360, 1320}
StepDates == {DateText(2026, 2, 14), DateText(2026, 2, 20)}
NextSteps ==
  \/ Connect({"UTC"})
  \/ AttrTimeStep({NumText(7), NumText(60)})
  \/ AttrDateStep({NumText(4), NumText(7)})
  \/ SetTimeRange(StepTimes)
  \/ SetDateRange(StepDates)
SpecSteps == InitWith({FALSE}) /\ [][NextSteps]_vars

\* the zone input alone: focus, typing, clearing, change, Escape and blur
NextZoneInput ==
  \/ Connect(SysZones)
  \/ AttrDateStep({NumText(0), NumText(4)})
  \/ TZFocus
  \/ TZType(ZoneTexts)
  \/ TZChange
  \/ TZEscape
  \/ TZBlur
SpecZoneInput == InitWith({FALSE}) /\ [][NextZoneInput]_vars

\* gestures on the time track while the zone setter is in use
NextTrackZone ==
  \/ Connect({"UTC"})
  \/ SetTimeZone({"Asia/Tokyo", "Mars/Phobos"})
  \/ PointerDown("time", {0}, DownXs, DownWidths)
  \/ PointerMove("time", MoveXs, MoveYs)
  \/ PointerUp("time", UpXs, Widths)
SpecTrackZone == InitWith({FALSE}) /\ [][NextTrackZone]_vars

(***************************************************************************)
(* Properties                                                              *)
(***************************************************************************)
Types(evs) == [i \in 1..Len(evs) |-> evs[i].type]
IsMultiple(v, step) == v % step = 0

\* the last operation ran to its end, and ended with #clampAndSyncDates
AfterClampDates ==
  /\ ~threw
  /\ \/ last.op \in {"setDateRange", "dateText", "dateThumb"} /\ last.x = 1
     \/ /\ last.op = "attribute" /\ last.kind \in {"min-date", "max-date"}
        /\ last.x = 1 /\ ready

\* C1: after every operation that ends with clampDates, dateMin = 0 <= dateStart
\* <= dateEnd <= dateMax and both ends are exact multiples of dateStepDays.
C1_ClampDatesInBounds ==
  AfterClampDates =>
    /\ S.dateMin = 0
    /\ S.dateMin <= S.dateStart /\ S.dateStart <= S.dateEnd /\ S.dateEnd <= S.dateMax
    /\ IsMultiple(S.dateStart, S.dateStepDays) /\ IsMultiple(S.dateEnd, S.dateStepDays)

\* the last operation ran to its end, and ended with #clampAndSyncTimes
AfterClampTimes ==
  ~threw /\ last.op \in {"setTimeRange", "timeText", "timeThumb"} /\ last.x = 1

\* C2: after every operation that ends with clampTimes, timeStart and timeEnd lie
\* in [0, 1439] and each is an exact multiple of timeStep.
C2_ClampTimesInRange ==
  AfterClampTimes =>
    /\ 0 <= S.timeStart /\ S.timeStart <= 1439
    /\ 0 <= S.timeEnd /\ S.timeEnd <= 1439
    /\ IsMultiple(S.timeStart, S.timeStep) /\ IsMultiple(S.timeEnd, S.timeStep)

\* the last operation was a drag move or a click-recenter that shifted the
\* selection of the track
Shifted(kind) ==
  last.op \in {"pointermove", "pointerup"} /\ last.kind = kind /\ last.acted >= 1

\* C3: after a date-track drag move or click-recenter, dateMin <= dateStart and
\* dateEnd <= dateMax.
C3_DateShiftInBounds ==
  Shifted("date") => S.dateMin <= S.dateStart /\ S.dateEnd <= S.dateMax

\* the session whose move listener wrote the selection last: the last one in
\* registration order that is past the click threshold
LastDragged(list) ==
  list[CHOOSE i \in 1..Len(list) :
         list[i].dragged /\ \A j \in (i + 1)..Len(list) : ~list[j].dragged]

\* the last operation was a time-track move that dragged the selection
TimeDragged == last.op = "pointermove" /\ last.kind = "time" /\ last.acted >= 1

\* C4: a time-track drag applies no clamping: from the snapshot (a, b) and the
\* step-rounded shift s it leaves timeStart = (a + s) mod 1440 and timeEnd =
\* (b + s) mod 1440, both in [0, 1439], for positive and negative s; (1320, 360)
\* shifted by +120 gives (0, 480) and a payload whose crossesMidnight is false.
C4_TimeDragWraps ==
  TimeDragged =>
    LET ss == LastDragged(sessions.time)
        s  == timeDragShift(ss.init, last.x - ss.downX, ss.width)
    IN  /\ S.timeStart = (ss.init.a + s) % 1440
        /\ S.timeEnd = (ss.init.b + s) % 1440
        /\ 0 <= S.timeStart /\ S.timeStart <= 1439
        /\ 0 <= S.timeEnd /\ S.timeEnd <= 1439
        /\ (ss.init.a = 1320 /\ ss.init.b = 360 /\ s = 120) =>
             /\ S.timeStart = 0 /\ S.timeEnd = 480
             /\ emitted # <<>>
             /\ ~Detail(emitted[Len(emitted)].state, hour24).crossesMidnight

\* a drag of (1320, 360) by +120 minutes has just been applied
C4_Witness ==
  /\ TimeDragged
  /\ LET ss == LastDragged(sessions.time)
     IN  /\ ss.init.a = 1320 /\ ss.init.b = 360
         /\ timeDragShift(ss.init, last.x - ss.downX, ss.width) = 120
  /\ S.timeStart = 0 /\ S.timeEnd = 480

\* the state of the documented payload example
ExampleState(st) ==
  /\ st.timeZone = "UTC"
  /\ idxToDate(st, st.dateStart) = DaysFromCivil(2026, 2, 1)
  /\ idxToDate(st, st.dateEnd) = DaysFromCivil(2026, 2, 28)
  /\ st.timeStart = 1320 /\ st.timeEnd = 360

PreSelection(kind) ==
  IF last.op = "pointermove"
  THEN LET ss == LastDragged(Track(kind)) IN [a |-> ss.init.a, b |-> ss.init.b]
  ELSE [a |-> last.a, b |-> last.b]

\* C6: a drag move or a click-recenter preserves the width of the selection:
\* dateEnd - dateStart on the date track, the wrap-aware width on the time
\* track.
C6_GesturePreservesWidth ==
  /\ Shifted("date") =>
       S.dateEnd - S.dateStart = PreSelection("date").b - PreSelection("date").a
  /\ Shifted("time") =>
       timeWidth(S.timeStart, S.timeEnd) =
         timeWidth(PreSelection("time").a, PreSelection("time").b)

\* C7: a pointer-move past the threshold emits one 'input' and any other move
\* nothing; the pointer-up that ends a gesture emits exactly one 'change', as
\* its last event, preceded by the recenter's 'input' when the gesture was a
\* click.
C7_GestureEvents ==
  /\ last.op = "pointermove" /\ last.n >= 1 =>
       Types(emitted) = IF last.acted >= 1 THEN <<"input">> ELSE <<>>
  /\ last.op = "pointerup" /\ last.n >= 1 =>
       Types(emitted) = IF last.acted >= 1 THEN <<"input", "change">> ELSE <<"change">>

\* the step is an attribute change to a different value
AttributeChanged == last'.op = "attribute" /\ last'.x = 1

\* C8: while not ready an attribute change renders nothing, emits nothing and
\* writes only timeZone, timeStep and dateStepDays; once ready, an attribute
\* change to a different value emits exactly one 'change' event.
C8_AttributeChange ==
  [][AttributeChanged =>
       IF ~ready
       THEN /\ emitted' = <<>> /\ ~threw' /\ tzInput' = tzInput
            /\ S' = [S EXCEPT !.timeZone = S'.timeZone, !.timeStep = S'.timeStep,
                              !.dateStepDays = S'.dateStepDays]
       ELSE Types(emitted') = <<"change">>]_vars

\* C9: in every reachable state the model's timeZone is an identifier the
\* platform validator accepts.
C9_TimeZoneAlwaysValid == isValidTimeZone(S.timeZone)

\* the last operation supplied an identifier the platform rejects: typed text,
\* the timeZone setter, or the default-tz attribute
UnrecognizedZoneSupplied ==
  \/ /\ last.op \in {"setTimeZone", "tzInput", "tzChange"}
     /\ trim(last.kind) \notin KnownZones \cup {"", Null}
  \/ /\ last.op = "attribute" /\ last.kind = "default-tz" /\ last.x = 1
     /\ attrs.default_tz \notin KnownZones \cup {"", Null}

\* C10: once the component is active, supplying an unrecognized zone through any
\* entry point raises no error out of the operation and leaves a valid zone in
\* the model.
C10_UnrecognizedZoneHarmless ==
  ready /\ UnrecognizedZoneSupplied => ~threw /\ isValidTimeZone(S.timeZone)

\* a value that is no calendar date: no value, text that is not YYYY-MM-DD, a
\* Date object holding no date
NotADate(v) == v.kind \in {"absent", "garbage", "invalid"}
\* text that is no time of day: empty, or an hour above 23 or a minute above 59
NotATime(v) == v.kind # "hm" \/ v.H > 23 \/ v.M > 59

\* the step hands a value that is no date to a date input or to the dateRange
\* setter, or a value that is no time to a time input
UnparseableSupplied ==
  \/ \E v \in {x \in TextDates : NotADate(x)} :
       DateTextInput("start", {v}) \/ DateTextInput("end", {v})
  \/ \E v \in {x \in TimeTexts : NotATime(x)} :
       TimeTextInput("start", {v}) \/ TimeTextInput("end", {v})
  \/ \E v \in {x \in DateArgs : NotADate(x)}, w \in DateArgs :
       SetDateRangeTo(v, w) \/ SetDateRangeTo(w, v)

\* C11: an unparseable date text input, an unparseable or out-of-range time
\* text input, or a dateRange assignment with an unparseable start or end is a
\* no-op: once the component is active, every field of #state keeps its value,
\* no event is emitted and no error is raised.
C11_UnparseableIsNoOp ==
  [][ready /\ UnparseableSupplied => S' = S /\ emitted' = <<>> /\ ~threw']_vars

\* the last operation computed the date bounds from the attributes: the
\* initialisation, or a min-date / max-date change while active
AfterDateBounds ==
  \/ last.op = "connect"
  \/ last.op = "attribute" /\ last.kind \in {"min-date", "max-date"} /\ last.x = 1 /\ ready

\* the bounds the attributes give are unusable: one is missing or no date, or
\* the minimum lies after the maximum
UnusableBounds ==
  \/ NotADate(attrs.min_date) \/ NotADate(attrs.max_date)
  \/ attrs.min_date.n > attrs.max_date.n

\* C12: swapped, absent or unparseable bounds give the default window without
\* an error: maxDate = today, minDate = today - 30 days, dateMin = 0 and
\* dateMax = 30.
C12_DefaultWindow ==
  AfterDateBounds /\ UnusableBounds =>
    /\ ~threw
    /\ S.maxDate = todayLocal /\ S.minDate = todayLocal - 30
    /\ CivilFromDays(S.minDate) = [y |-> 2026, m |-> 2, d |-> 1]
    /\ S.dateMin = 0 /\ S.dateMax = 30

\* the bounds were swapped while active and the default window was substituted
C12_Witness ==
  /\ last.op = "attribute" /\ last.x = 1 /\ ready
  /\ attrs.min_date.kind = "date" /\ attrs.max_date.kind = "date"
  /\ attrs.min_date.n > attrs.max_date.n
  /\ S.dateMax = 30 /\ S.maxDate = todayLocal

\* the last operation stored a step from an attribute holding an integer: a
\* change of that attribute to a different value, or the initialisation
StepSupplied(name, v) ==
  /\ v.kind = "num"
  /\ \/ last.op = "attribute" /\ last.kind = name /\ last.x = 1
     \/ last.op = "connect"

\* C13: for every integer n supplied as time-step or date-step-days, before
\* ready, at initialisation or while active, the stored step is max(1, n), and
\* the step is never below 1.
C13_StepIsMaxOneN ==
  /\ StepSupplied("time-step", attrs.time_step) => S.timeStep = Max(1, attrs.time_step.n)
  /\ StepSupplied("date-step-days", attrs.date_step_days) =>
       S.dateStepDays = Max(1, attrs.date_step_days.n)
  /\ S.timeStep >= 1 /\ S.dateStepDays >= 1

\* C14: timeRange = {s, e} keeps the order it is given: with s and e rounded and
\* clamped, e < s leaves timeEnd < timeStart (the range crosses midnight) and
\* s <= e leaves timeStart <= timeEnd.
C14_SetTimeRangeKeepsWrap ==
  last.op = "setTimeRange" /\ ~threw =>
    /\ last.b < last.a => S.timeEnd < S.timeStart
    /\ last.a <= last.b => S.timeStart <= S.timeEnd

\* the shift of a drag by dx pixels after rounding to the step, before any
\* clamping or wrapping
StepRoundedShift(kind, ss, dx) ==
  IF kind = "date"
  THEN snapToStep(ratioTimes(dx, ss.width, ss.init.span), ss.init.step)
  ELSE snapToStep(ratioTimes(dx, ss.width, ss.init.span + 1), ss.init.step)

\* after a drag move on the track whose step-rounded shift is 0, the selection
\* is the one captured at pointer-down
ZeroShiftKeeps(kind) ==
  last.op = "pointermove" /\ last.kind = kind /\ last.acted >= 1 =>
    LET ss == LastDragged(Track(kind))
    IN  StepRoundedShift(kind, ss, last.x - ss.downX) = 0 =>
          SelStart(kind) = ss.init.a /\ SelEnd(kind) = ss.init.b

\* C15: a drag move whose step-rounded shift is 0 leaves dateStart / dateEnd,
\* respectively timeStart / timeEnd, equal to the selection captured at
\* pointer-down.
C15_ZeroShiftUnchanged == ZeroShiftKeeps("date") /\ ZeroShiftKeeps("time")

\* the clicked fractional position num / den of a release at x on a track w
\* wide: (x - left) / w kept within [0, 1], and 1/2 on a track without width
ClickNum(x, w) == IF w = 0 THEN 1 ELSE Min(w, Max(0, x))
ClickDen(w) == IF w = 0 THEN 2 ELSE w

\* the date shift towards num / den, rounded to the step, fits between the
\* bounds without clamping
DateShiftFits(st, num, den) ==
  LET shift1 == RoundDiv(2 * den * st.dateMin + 2 * num * (st.dateMax - st.dateMin)
                           - (st.dateStart + st.dateEnd) * den,
                         2 * den * st.dateStepDays) * st.dateStepDays
  IN  /\ st.dateMin <= st.dateStart + shift1
      /\ st.dateEnd + shift1 <= st.dateMax

\* the midpoint of the date selection is within dateStepDays / 2 of
\* dateMin + (num / den) * (dateMax - dateMin)
DateMidpointAt(st, num, den) ==
  Abs(den * (st.dateStart + st.dateEnd) - 2 * den * st.dateMin
        - 2 * num * (st.dateMax - st.dateMin)) <= den * st.dateStepDays

\* the wrap-aware midpoint of the time selection is within timeStep / 2 of
\* round((num / den) * 1439), modulo 1440 (distances in half minutes)
TimeMidpointAt(st, num, den) ==
  LET mid2   == (2 * st.timeStart + timeWidth(st.timeStart, st.timeEnd)) % 2880
      target == RoundDiv(num * 1439, den) % 1440
      d      == (mid2 - 2 * target) % 2880
  IN  Min(d, 2880 - d) <= st.timeStep

\* the step is the pointer-up of a click on the track, released at x on a
\* track w wide, with no other gesture in progress on it
ClickReleased(kind, x, w) ==
  /\ ready /\ Len(Track(kind)) = 1 /\ ~Track(kind)[1].dragged
  /\ PointerUp(kind, {x}, {w})

\* C16: a click-recenter leaves the selection midpoint at the clicked
\* fractional position up to step snapping: on the date track, when the rounded
\* shift needs no clamping, within dateStepDays / 2 of dateMin + ratio *
\* (dateMax - dateMin); on the time track within timeStep / 2 of
\* round(ratio * 1439), modulo 1440.
C16_RecenterAligns ==
  [][\A x \in UpXs, w \in Widths :
       /\ ClickReleased("date", x, w) /\ DateShiftFits(S, ClickNum(x, w), ClickDen(w))
            => DateMidpointAt(S', ClickNum(x, w), ClickDen(w))
       /\ ClickReleased("time", x, w)
            => TimeMidpointAt(S', ClickNum(x, w), ClickDen(w))]_vars

\* the step is a pointer-move on the track whose gesture has just been ended by
\* a pointer-up or pointer-cancel, with no pointer-down in between
MoveAfterGesture ==
  /\ last.op = "pointerup" /\ last.n >= 1
  /\ last'.op = "pointermove" /\ last'.kind = last.kind

\* C17: after the pointer-up or pointer-cancel of a gesture its move handler is
\* unregistered: a later pointer-move on the track leaves #state unchanged and
\* emits no event until the next pointer-down.
C17_NoMoveAfterGesture ==
  [][MoveAfterGesture => S' = S /\ emitted' = <<>> /\ ~threw']_vars

\* the step is the blur of the zone input while its text is empty
BlurWhileEmpty ==
  /\ ready /\ tzInput.focused /\ trim(tzInput.value) = ""
  /\ last'.op = "tzBlur"

\* C18: when the zone input loses focus while empty, the component's time zone
\* is the zone it had when the input gained focus (kept in #prevTZ), whatever
\* was typed and cleared in between.
C18_BlurRestoresZone ==
  [][BlurWhileEmpty => S'.timeZone = prevTZ]_vars

\* the step is a change of the named step attribute to a different value
StepAttributeChanged(name) ==
  last'.op = "attribute" /\ last'.kind = name /\ last'.x = 1

\* C19: a change of time-step or date-step-days writes the step and nothing
\* else: dateStart, dateEnd, timeStart, timeEnd, the bounds and the zone keep
\* their values, so the selection may be left off the new grid.
C19_StepChangeKeepsSelection ==
  [][/\ StepAttributeChanged("time-step") => S' = [S EXCEPT !.timeStep = S'.timeStep]
     /\ StepAttributeChanged("date-step-days")
          => S' = [S EXCEPT !.dateStepDays = S'.dateStepDays]]_vars

\* a ready component whose time-step has just changed and whose selection is
\* not on the new grid
C19_Witness ==
  /\ ready /\ ~threw
  /\ last.op = "attribute" /\ last.kind = "time-step" /\ last.x = 1
  /\ last.a = S.timeStart /\ last.b = S.timeEnd
  /\ ~IsMultiple(S.timeStart, S.timeStep)

\* an offset transition of the zone lies within a day of the instant
NearTransition(tz, e) == ZoneOffsetAt(tz, e - mod) # ZoneOffsetAt(tz, e + mod)

\* C20: for an instant e with no offset transition nearby, #localToEpoch
\* applied to the wall-clock fields of e in the zone returns e, and its loop
\* recomputes the offset at most MaxOffsetIterations times.
C20_OffsetRoundTrip ==
  (last.op = "localToEpoch" /\ ~NearTransition(last.kind, last.x))
    => last.a = last.x /\ last.n <= MaxOffsetIterations

\* the elements of a sequence
Range(seq) == {seq[i] : i \in 1..Len(seq)}

\* r is the candidate that minimises |total / c - target|, the smallest one
\* where several candidates are equally near (compared exactly, as fractions)
IsNearest(total, target, candidates, r) ==
  /\ r \in Range(candidates)
  /\ \A c \in Range(candidates) :
       /\ Abs(total - target * r) * c <= Abs(total - target * c) * r
       /\ Abs(total - target * r) * c = Abs(total - target * c) * r => r <= c

\* C21: the chosen date tick step is the candidate nearest to the target
\* count, the smallest one on ties, for every window length; likewise the time
\* tick step over the 1440 minutes of the day.
C21_TickStepIsNearest ==
  /\ last.op = "chooseDateTickStep"
       => IsNearest(last.x, last.a, DateTickCandidates, last.b)
  /\ last.op = "chooseTimeTickStep"
       => IsNearest(mod, last.a, TimeTickCandidates, last.b)

\* the step of a track
StepOf(kind) == IF kind = "date" THEN S.dateStepDays ELSE S.timeStep

\* the last operation was a drag move or a click-recenter on the track, applied
\* to a selection whose endpoints were multiples of the step, the step being
\* the one the drag started with
ShiftedOnGrid(kind) ==
  /\ Shifted(kind)
  /\ IsMultiple(PreSelection(kind).a, StepOf(kind))
  /\ IsMultiple(PreSelection(kind).b, StepOf(kind))
  /\ last.op = "pointermove" => LastDragged(Track(kind)).init.step = StepOf(kind)

\* C22: a drag or click-recenter applied to a selection whose endpoints are
\* multiples of the step leaves endpoints that are multiples of the step, on
\* the date track and on the time track, shifts that wrap past midnight
\* included.
C22_GesturesKeepMultiples ==
  /\ ShiftedOnGrid("date")
       => IsMultiple(S.dateStart, S.dateStepDays) /\ IsMultiple(S.dateEnd, S.dateStepDays)
  /\ ShiftedOnGrid("time")
       => IsMultiple(S.timeStart, S.timeStep) /\ IsMultiple(S.timeEnd, S.timeStep)

\* the sessions of a track in a given value of the sessions variable
TrackIn(ses, kind) == IF kind = "date" THEN ses.date ELSE ses.time

\* the number of 'input' events in a list of events: one per recenter or drag
Inputs(evs) == Cardinality({i \in 1..Len(evs) : evs[i].type = "input"})

\* a pointer-move to (x, y): every gesture of the track is a drag afterwards
\* exactly if it was one before or the point is more than the threshold away
\* from its pointer-down point, and while a gesture has not become a drag the
\* move changes nothing and emits nothing
MoveLatches(kind, x, y) ==
  LET before == Track(kind)
      after  == TrackIn(sessions', kind)
  IN  /\ Len(after) = Len(before)
      /\ \A i \in 1..Len(before) :
           /\ after[i].dragged <=>
                \/ before[i].dragged
                \/ pastThreshold(x - before[i].downX, y - before[i].downY)
           /\ ~after[i].dragged => S' = S /\ emitted' = <<>>

\* a pointer-up: a gesture that never became a drag is recentered, once, and a
\* gesture that became a drag is not
UpRecenters(kind) ==
  \A i \in 1..Len(Track(kind)) :
    IF Track(kind)[i].dragged THEN Inputs(emitted') = 0 /\ S' = S
    ELSE Inputs(emitted') = 1

\* C23: drag versus click is a latch: a gesture becomes a drag at the first
\* pointer-move more than CLICK_PX_THRESHOLD away from its pointer-down point
\* and stays one; moves before that change no state and emit nothing; the
\* pointer-up recenters exactly if the gesture never became a drag.
C23_DragLatch ==
  [][\A kind \in {"date", "time"} :
       /\ \A x \in MoveXs, y \in MoveYs :
            PointerMove(kind, {x}, {y}) => MoveLatches(kind, x, y)
       /\ (last'.op = "pointerup" /\ last'.kind = kind /\ ~threw') => UpRecenters(kind)]_vars

\* no instant has this wall-clock time in the zone: with neither of the
\* offsets in force around it does the zone show it
InGap(tz, wall) ==
  \A o \in {ZoneOffsetAt(tz, wall - mod), ZoneOffsetAt(tz, wall + mod)} :
    ZoneOffsetAt(tz, wall - o) # o

\* C24: for a requested local time inside a spring-forward gap, the instant
\* #localToEpoch returns shows, in the zone, the requested time plus exactly
\* one hour, in zones east and west of Greenwich alike.
C24_GapMovesOneHour ==
  (last.op = "localToEpochWall" /\ InGap(last.kind, last.x))
    => last.a + ZoneOffsetAt(last.kind, last.a) = last.x + MinutesPerHour

\* a <= b on JavaScript numbers: false when either side is NaN
LeqJS(a, b) == a # NaN /\ b # NaN /\ a <= b

\* C25: dateStart <= dateEnd in every reachable state, whatever the order of
\* date text inputs, thumb inputs, setDateRange, bound and step changes, drags
\* and click-recenters.
C25_DateOrderAlways == LeqJS(S.dateStart, S.dateEnd)

\* the wall-clock time an ISO text of the payload names, in minutes
WallClock(iso) == DaysFromCivil(iso.y, iso.M, iso.d) * mod + iso.h * MinutesPerHour + iso.m

DraggedAfterBoundsChange ==
  /\ last.op = "pointermove" /\ last.kind = "date" /\ last.acted >= 1 /\ ~threw
  /\ LastDragged(sessions.date).init.max # S.dateMax

\* C27: when min-date or max-date changes between the pointer-down and a
\* later move of the same date drag, dateStart and dateEnd still lie within
\* the current [dateMin, dateMax] after that move.
C27_DragWithinCurrentBounds ==
  DraggedAfterBoundsChange => S.dateMin <= S.dateStart /\ S.dateEnd <= S.dateMax

\* the step is a change of min-date on a ready component whose selected
\* calendar dates lie within the new [minDate, maxDate]
MinDateChangedAround ==
  /\ ready /\ ~threw'
  /\ last'.op = "attribute" /\ last'.kind = "min-date" /\ last'.x = 1
  /\ S'.minDate <= idxToDate(S, S.dateStart) /\ idxToDate(S, S.dateStart) <= S'.maxDate
  /\ S'.minDate <= idxToDate(S, S.dateEnd) /\ idxToDate(S, S.dateEnd) <= S'.maxDate

\* C28: a change of min-date that leaves the selected calendar dates inside
\* the new window leaves them selected: get dateRange returns the same start
\* and end dates after the change as before.
C28_MinDateKeepsCalendarDates ==
  [][MinDateChangedAround =>
       /\ idxToDate(S', S'.dateStart) = idxToDate(S, S.dateStart)
       /\ idxToDate(S', S'.dateEnd) = idxToDate(S, S.dateEnd)]_vars

\* the last operation was a public setter called before the template is attached
SetterBeforeReady ==
  ~ready /\ last.op \in {"setDateRange", "setTimeRange", "setTimeZone"}

\* C29: a public setter (dateRange, timeRange, timeZone) called before the
\* template is attached raises no error and emits no event.
C29_SettersGuardedBeforeReady ==
  SetterBeforeReady => ~threw /\ emitted = <<>>

\* the number of 'change' events in a list of events
Changes(evs) == Cardinality({i \in 1..Len(evs) : evs[i].type = "change"})

\* the last operation was a pointer-up that ended at least one gesture
GestureEnded ==
  last.op = "pointerup" /\ last.n >= 1 /\ ~threw

\* C30: at most one gesture session is live per track, so a pointer-up that
\* ends a gesture, also one that followed two pointer-downs, dispatches exactly
\* one 'change' event and recenters at most once.
C30_OneSessionPerTrack ==
  GestureEnded => Changes(emitted) = 1 /\ Inputs(emitted) <= 1

====
